---- MODULE Spec2Model ----
(***************************************************************************)
(* A model of the Bigtable byte store of langchain_google_bigtable:        *)
(*   - the async core   (async_key_value_store.py, AsyncBigtableByteStore) *)
(*   - the facade       (key_value_store.py, BigtableByteStore)            *)
(*   - the execution engine and the remote store client the two rest on.   *)
(*                                                                         *)
(* Text is a sequence of code points, a row key a sequence of bytes; the   *)
(* two are related by UTF-8, computed here as Python computes it.          *)
(* Names that the source uses without importing them (RowSet,              *)
(* StripValueFilter) and the private-name spelling engine.__run_as_sync    *)
(* are read as the client's / engine's primitives they stand for: name     *)
(* resolution is outside this model, control flow and data flow are in it. *)
(* The facade's entry points are those its class body defines; what its    *)
(* base class does with any other call is left open.                       *)
(***************************************************************************)
EXTENDS Integers, Sequences, FiniteSets, TLC

VARIABLES
    table,      \* the remote table: row key (bytes) -> row (column -> cells, newest first)
    last,       \* the last async-core operation: its input and its outcome
    calls,      \* the calls the last operation issued to the remote store client
    written,    \* history: per key, what the latest set/delete of that key left
    pc,         \* per caller of the facade: idle, blocked, suspended or returned
    call,       \* per caller: the facade entry point it called, and its argument
    task,       \* per caller: its operation on the engine's background loop
    ret,        \* per caller: what the facade call handed back
    expect,     \* history: per caller, what its operation found when the store served it
    lazyAsync,  \* whether the engine's run-as-async starts work only once awaited
    engines,    \* the engines created so far, each with its loop thread and client
    stores,     \* the facade stores created so far
    outcome     \* the last construction attempt and how it ended

coreVars == <<table, last, calls, written>>
engineVars == <<pc, call, task, ret, expect, lazyAsync>>
factoryVars == <<engines, stores, outcome>>
vars == <<coreVars, engineVars, factoryVars>>

-----------------------------------------------------------------------------
(* Bounds of the model *)

MaxLen == 2        \* longest key list / pair list handed to one operation
MaxCells == 2      \* most cell versions kept in one column of one row
NCallers == 2      \* threads / tasks calling the facade of one shared engine
MaxEngines == 2    \* engines created in one run
MaxStores == 2     \* stores created in one run

-----------------------------------------------------------------------------
(* Python values *)

None == "None"                             \* None as an element of amget's results
Unit == <<"unit">>                          \* None as the whole result of a call
NoError == "NoError"
StoreError == "StoreError"                  \* a failure of the remote store client
UnicodeEncodeError == "UnicodeEncodeError"  \* str.encode on a lone surrogate
ValueError == "ValueError"                  \* chr() out of range, factory misuse

Values == {"v1", "v2"}                      \* opaque byte payloads

\* the configured column: DEFAULT_VALUE_COLUMN_FAMILY, DEFAULT_VALUE_COLUMN_QUALIFIER
ValueColumn == <<"kv", "val">>
\* some column the byte store is not configured for
OtherColumn == <<"kv", "meta">>
Columns == {ValueColumn, OtherColumn}

-----------------------------------------------------------------------------
(* Text and bytes: str.encode('utf-8'), bytes.decode('utf-8'), chr, ord *)

MaxCodePoint == 1114111     \* 0x10FFFF, sys.maxunicode
SurrogateLo == 55296        \* 0xD800
SurrogateHi == 57343        \* 0xDFFF

IsSurrogate(cp) == cp >= SurrogateLo /\ cp <= SurrogateHi

\* UTF-8 of one code point that is not a surrogate
EncodeCodePoint(cp) ==
    IF cp < 128 THEN <<cp>>
    ELSE IF cp < 2048 THEN <<192 + (cp \div 64), 128 + (cp % 64)>>
    ELSE IF cp < 65536 THEN
        <<224 + (cp \div 4096), 128 + ((cp \div 64) % 64), 128 + (cp % 64)>>
    ELSE <<240 + (cp \div 262144), 128 + ((cp \div 4096) % 64),
           128 + ((cp \div 64) % 64), 128 + (cp % 64)>>

\* whether s.encode('utf-8') succeeds: a lone surrogate cannot be encoded
Encodable(s) == \A i \in 1..Len(s) : ~IsSurrogate(s[i])

RECURSIVE Encode(_)
Encode(s) ==
    IF s = <<>> THEN <<>> ELSE EncodeCodePoint(Head(s)) \o Encode(Tail(s))

\* number of bytes of the UTF-8 sequence a lead byte opens
LeadLength(b) ==
    IF b < 128 THEN 1 ELSE IF b < 224 THEN 2 ELSE IF b < 240 THEN 3 ELSE 4

\* the code point of one UTF-8 sequence (its bytes given)
DecodeCodePoint(bs) ==
    IF Len(bs) = 1 THEN bs[1]
    ELSE IF Len(bs) = 2 THEN (bs[1] - 192) * 64 + (bs[2] - 128)
    ELSE IF Len(bs) = 3 THEN
        (bs[1] - 224) * 4096 + (bs[2] - 128) * 64 + (bs[3] - 128)
    ELSE (bs[1] - 240) * 262144 + (bs[2] - 128) * 4096
         + (bs[3] - 128) * 64 + (bs[4] - 128)

RECURSIVE Decode(_)
Decode(bs) ==
    IF bs = <<>> THEN <<>>
    ELSE LET n == LeadLength(Head(bs))
         IN  <<DecodeCodePoint(SubSeq(bs, 1, n))>> \o Decode(SubSeq(bs, n + 1, Len(bs)))

\* the order of row keys: bytes compared lexicographically
RECURSIVE BytesLess(_, _)
BytesLess(a, b) ==
    IF b = <<>> THEN FALSE
    ELSE IF a = <<>> THEN TRUE
    ELSE IF Head(a) # Head(b) THEN Head(a) < Head(b)
    ELSE BytesLess(Tail(a), Tail(b))

BytesLeq(a, b) == a = b \/ BytesLess(a, b)

-----------------------------------------------------------------------------
(* The remote store client: rows, batched read, batched mutation, scans *)

\* a row's cells in one column, newest first (dict.get with a default)
CellsOf(row, col) == IF col \in DOMAIN row THEN row[col] ELSE <<>>

\* the rows a batched read by key list returns: the requested rows that exist
ReadRows(t, row_keys) ==
    {[row_key |-> k, cells |-> t[k]] : k \in {row_keys[i] : i \in 1..Len(row_keys)} \cap DOMAIN t}

\* every order in which the store may hand back a set of rows
RowOrders(rows) ==
    {s \in [1..Cardinality(rows) -> rows] :
        \A i, j \in 1..Cardinality(rows) : s[i] = s[j] => i = j}

\* garbage collection keeps the newest versions of a column (MaxVersionsGCRule)
KeepNewest(cells) == IF Len(cells) > MaxCells THEN SubSeq(cells, 1, MaxCells) ELSE cells

\* one mutation applied to the table: set_cell adds a newest cell and leaves
\* the row's other columns alone; delete removes the whole row
ApplyMutation(t, m) ==
    IF m.kind = "delete"
    THEN [k \in DOMAIN t \ {m.row_key} |-> t[k]]
    ELSE LET old == IF m.row_key \in DOMAIN t THEN t[m.row_key] ELSE <<>>
             new == [c \in DOMAIN old \cup {m.column} |->
                        IF c = m.column
                        THEN KeepNewest(<<m.value>> \o CellsOf(old, c))
                        ELSE old[c]]
         IN  [k \in DOMAIN t \cup {m.row_key} |-> IF k = m.row_key THEN new ELSE t[k]]

\* a batch applied entry by entry, in order; applied[i] tells whether entry i
\* took effect (all TRUE on success, anything else when the batch fails)
RECURSIVE ApplyBatch(_, _, _)
ApplyBatch(t, mutations, applied) ==
    IF mutations = <<>> THEN t
    ELSE ApplyBatch(IF Head(applied) THEN ApplyMutation(t, Head(mutations)) ELSE t,
                    Tail(mutations), Tail(applied))

AllApplied(n) == [i \in 1..n |-> TRUE]

\* what a failing batch may have applied: anything but the whole batch
PartlyApplied(n) == [1..n -> BOOLEAN] \ {AllApplied(n)}

\* the row keys of a range scan [start, end), and of a whole-table scan
RangeKeys(t, start, end) ==
    {k \in DOMAIN t : BytesLeq(start, k) /\ BytesLess(k, end)}

AllKeys(t) == DOMAIN t

\* a scan hands rows back in row-key order
RECURSIVE InKeyOrder(_)
InKeyOrder(ks) ==
    IF ks = {} THEN <<>>
    ELSE LET m == CHOOSE k \in ks : \A o \in ks : BytesLeq(k, o)
         IN  <<m>> \o InKeyOrder(ks \ {m})

-----------------------------------------------------------------------------
(* The async core: AsyncBigtableByteStore *)

\* amget: row_keys = [key.encode('utf-8') for key in keys]
AmgetRowKeys(keys) == [i \in 1..Len(keys) |-> Encode(keys[i])]

\* amget: row_maps = {row.row_key: row for row in rows}; a later row of the
\* same key replaces an earlier one
RowMaps(rows) ==
    [k \in {rows[i].row_key : i \in 1..Len(rows)} |->
        LET i == CHOOSE i \in 1..Len(rows) :
                    /\ rows[i].row_key = k
                    /\ \A j \in (i + 1)..Len(rows) : rows[j].row_key # k
        IN  rows[i]]

\* (a variant that takes the oldest cell)
AmgetValueShifted(row_maps, key) ==
    IF key \in DOMAIN row_maps
    THEN LET cell == CellsOf(row_maps[key].cells, ValueColumn)
         IN  IF cell # <<>> THEN cell[Len(cell)] ELSE None
    ELSE None

\* amget: the value of the newest cell of the configured column, or None
AmgetValue(row_maps, key) ==
    IF key \in DOMAIN row_maps
    THEN LET cell == CellsOf(row_maps[key].cells, ValueColumn)
         IN  IF cell # <<>> THEN cell[1] ELSE None
    ELSE None

\* (a variant that pairs the returned rows with the queried keys by position)
AmgetResultsByPosition(row_keys, rows) ==
    [i \in 1..Len(row_keys) |->
        IF i <= Len(rows)
        THEN AmgetValue([k \in {row_keys[i]} |-> rows[i]], row_keys[i])
        ELSE None]

\* (a variant that walks the returned rows instead of the queried keys)
AmgetResultsPerRow(row_keys, rows) ==
    LET row_maps == RowMaps(rows)
    IN  [i \in 1..Len(rows) |-> AmgetValue(row_maps, rows[i].row_key)]

\* amget, after the read: one result per queried key, looked up by key
AmgetResults(row_keys, rows) ==
    LET row_maps == RowMaps(rows)
    IN  [i \in 1..Len(row_keys) |-> AmgetValue(row_maps, row_keys[i])]

\* (a variant that writes each row anew: a row delete before every set_cell)
AmsetMutationsReplacingRow(kv_pairs) ==
    [i \in 1..(2 * Len(kv_pairs)) |->
        LET pair == kv_pairs[(i + 1) \div 2]
        IN  [row_key |-> Encode(pair[1]),
             kind |-> IF i % 2 = 1 THEN "delete" ELSE "set_cell",
             column |-> ValueColumn,
             value |-> IF i % 2 = 1 THEN None ELSE pair[2]]]

\* amset: one set_cell mutation per pair, in the order of the pairs
AmsetMutations(kv_pairs) ==
    [i \in 1..Len(kv_pairs) |->
        [row_key |-> Encode(kv_pairs[i][1]), kind |-> "set_cell",
         column |-> ValueColumn, value |-> kv_pairs[i][2]]]

\* (a variant that leaves the loop after the first key)
AmdeleteMutationsFirstOnly(keys) ==
    [i \in 1..(IF Len(keys) > 1 THEN 1 ELSE Len(keys)) |->
        [row_key |-> Encode(keys[i]), kind |-> "delete",
         column |-> ValueColumn, value |-> None]]

\* amdelete: one row delete per key
AmdeleteMutations(keys) ==
    [i \in 1..Len(keys) |->
        [row_key |-> Encode(keys[i]), kind |-> "delete",
         column |-> ValueColumn, value |-> None]]

\* ayield_keys: end_key = prefix[:-1] + chr(ord(prefix[-1]) + 1)
EndKey(prefix) == SubSeq(prefix, 1, Len(prefix) - 1) \o <<prefix[Len(prefix)] + 1>>

\* (a variant in which chr() has no upper limit: only the encoding can fail)
RangeErrorEncodingOnly(prefix) ==
    IF ~Encodable(prefix) \/ ~Encodable(EndKey(prefix)) THEN UnicodeEncodeError
    ELSE NoError

\* ayield_keys: the error raised before any scan is issued, if any:
\* chr() past the last code point, then encode() of a lone surrogate
RangeError(prefix) ==
    IF prefix[Len(prefix)] + 1 > MaxCodePoint THEN ValueError
    ELSE IF ~Encodable(prefix) \/ ~Encodable(EndKey(prefix)) THEN UnicodeEncodeError
    ELSE NoError

\* (a variant that yields the row keys byte for byte, undecoded)
YieldedKeysUndecoded(row_keys) == row_keys

\* ayield_keys: the decoded row keys, in the order the scan hands them back
YieldedKeys(row_keys) == [i \in 1..Len(row_keys) |-> Decode(row_keys[i])]

Range(f) == {f[i] : i \in DOMAIN f}

\* what a get of one key alone returns on table t
SingleGet(t, key) ==
    AmgetResults(<<Encode(key)>>,
                 CHOOSE rows \in RowOrders(ReadRows(t, <<Encode(key)>>)) : TRUE)[1]

-----------------------------------------------------------------------------
(* Inputs *)

\* the keys the operations are called with: "a" and "é" (two bytes in UTF-8)
Keys == {<<97>>, <<233>>}

SeqsUpTo(S, n) == UNION {[1..m -> S] : m \in 0..n}

KeyLists == SeqsUpTo(Keys, MaxLen)
PairLists == SeqsUpTo(Keys \X Values, MaxLen)

\* prefixes of ayield_keys: None, "", "a", "ab", "b", "c", "a\x7f",
\* "퟿" (the code point before the surrogates), "\U0010ffff", "a\U0010ffff"
NoPrefix == <<-1>>      \* prefix=None: no text, told apart from the empty text

Prefixes ==
    {NoPrefix, <<>>, <<97>>, <<97, 98>>, <<98>>, <<99>>, <<97, 127>>,
     <<55295>>, <<1114111>>, <<97, 1114111>>}

\* the keys a scanned table may hold: "ab", "ab1", "ab2", "ac1", "b1",
\* "a\x7f", "a\x7fz", "a\u0080", "퟿", "", "\U0010ffff"
ScanKeys ==
    {<<97, 98>>, <<97, 98, 49>>, <<97, 98, 50>>, <<97, 99, 49>>, <<98, 49>>,
     <<97, 127>>, <<97, 127, 122>>, <<97, 128>>, <<55295>>, <<57344>>, <<1114111>>}

-----------------------------------------------------------------------------
(* History kept for the properties: what the latest set or delete left at a key *)

Never == "never"          \* the configured column of the key was never written
Unknown == "unknown"      \* written before the run, twice in one batch, or by a failed batch
Deleted == "deleted"

Occurrences(kv_pairs, key) == {i \in 1..Len(kv_pairs) : kv_pairs[i][1] = key}

AfterSet(w, kv_pairs, ok) ==
    [k \in DOMAIN w |->
        LET occ == Occurrences(kv_pairs, k)
        IN  IF occ = {} THEN w[k]
            ELSE IF ok /\ Cardinality(occ) = 1
                 THEN kv_pairs[CHOOSE i \in occ : TRUE][2]
                 ELSE Unknown]

AfterDelete(w, keys, ok) ==
    [k \in DOMAIN w |->
        IF k \in {keys[i] : i \in 1..Len(keys)}
        THEN (IF ok THEN Deleted ELSE Unknown)
        ELSE w[k]]

-----------------------------------------------------------------------------------------------------------------------------------------------------
(* The operations of the async core, each run from call to return, the     *)
(* client answering every call; a failing client is followed on the engine *)
(* further down (ClientFails).                                             *)

\* amget(keys)
AmGet(keys) ==
    /\ UNCHANGED <<table, written, engineVars, factoryVars>>
    /\ IF keys = <<>>
       THEN /\ calls' = <<>>
            /\ last' = [op |-> "get", arg |-> keys, result |-> <<>>, error |-> NoError]
       ELSE LET row_keys == AmgetRowKeys(keys)
            IN  /\ calls' = <<[method |-> "read_rows", size |-> Len(row_keys)]>>
                /\ \E rows \in RowOrders(ReadRows(table, row_keys)) :
                        last' = [op |-> "get", arg |-> keys,
                                 result |-> AmgetResults(row_keys, rows),
                                 error |-> NoError]

\* (a variant that writes pair by pair, one call each)
AmSetUnbatched(kv_pairs) ==
    LET mutations == AmsetMutations(kv_pairs)
    IN  /\ UNCHANGED <<engineVars, factoryVars>>
        /\ last' = [op |-> "set", arg |-> Len(kv_pairs), result |-> Unit,
                    error |-> NoError]
        /\ calls' = [i \in 1..Len(mutations) |-> [method |-> "mutate_rows", size |-> 1]]
        /\ table' = ApplyBatch(table, mutations, AllApplied(Len(mutations)))
        /\ written' = AfterSet(written, kv_pairs, TRUE)

\* amset(kv_pairs)
AmSet(kv_pairs) ==
    LET mutations == AmsetMutations(kv_pairs)
    IN  /\ UNCHANGED <<engineVars, factoryVars>>
        /\ last' = [op |-> "set", arg |-> Len(kv_pairs), result |-> Unit,
                    error |-> NoError]
        /\ IF mutations # <<>>
           THEN /\ calls' = <<[method |-> "mutate_rows", size |-> Len(mutations)]>>
                /\ table' = ApplyBatch(table, mutations, AllApplied(Len(mutations)))
                /\ written' = AfterSet(written, kv_pairs, TRUE)
           ELSE /\ calls' = <<>>
                /\ UNCHANGED <<table, written>>

\* (a variant that deletes the cells of the configured column only)
AmDeleteColumnOnly(keys) ==
    LET mutations == AmdeleteMutations(keys)
        named == {mutations[i].row_key : i \in 1..Len(mutations)}
    IN  /\ UNCHANGED <<engineVars, factoryVars>>
        /\ last' = [op |-> "delete", arg |-> Len(keys), result |-> Unit,
                    error |-> NoError]
        /\ IF mutations # <<>>
           THEN /\ calls' = <<[method |-> "mutate_rows", size |-> Len(mutations)]>>
                /\ table' = [k \in DOMAIN table |->
                                IF k \in named
                                THEN [c \in DOMAIN table[k] \ {ValueColumn} |-> table[k][c]]
                                ELSE table[k]]
                /\ written' = AfterDelete(written, keys, TRUE)
           ELSE /\ calls' = <<>>
                /\ UNCHANGED <<table, written>>

\* amdelete(keys)
AmDelete(keys) ==
    LET mutations == AmdeleteMutations(keys)
    IN  /\ UNCHANGED <<engineVars, factoryVars>>
        /\ last' = [op |-> "delete", arg |-> Len(keys), result |-> Unit,
                    error |-> NoError]
        /\ IF mutations # <<>>
           THEN /\ calls' = <<[method |-> "mutate_rows", size |-> Len(mutations)]>>
                /\ table' = ApplyBatch(table, mutations, AllApplied(Len(mutations)))
                /\ written' = AfterDelete(written, keys, TRUE)
           ELSE /\ calls' = <<>>
                /\ UNCHANGED <<table, written>>

\* ayield_keys(prefix), consumed to its end
AyieldKeys(prefix) ==
    /\ UNCHANGED <<table, written, engineVars, factoryVars>>
    /\ IF prefix = NoPrefix \/ prefix = <<>>
       THEN /\ calls' = <<[method |-> "read_rows", filter |-> "strip_value",
                           range |-> <<>>]>>
            /\ last' = [op |-> "keys", arg |-> prefix,
                        result |-> YieldedKeys(InKeyOrder(AllKeys(table))),
                        error |-> NoError]
       ELSE IF RangeError(prefix) # NoError
       THEN /\ calls' = <<>>
            /\ last' = [op |-> "keys", arg |-> prefix, result |-> <<>>,
                        error |-> RangeError(prefix)]
       ELSE LET start == Encode(prefix)
                end == Encode(EndKey(prefix))
            IN  /\ calls' = <<[method |-> "read_rows", filter |-> "none",
                               range |-> <<start, end>>]>>
                /\ last' = [op |-> "keys", arg |-> prefix,
                            result |-> YieldedKeys(InKeyOrder(RangeKeys(table, start, end))),
                            error |-> NoError]

-----------------------------------------------------------------------------
(* Callers of the facade, the engine's background loop, construction: at rest *)

Callers == 1..NCallers

NoCall == [entry |-> "none", arg |-> <<>>]
NoTask == [state |-> "none", result |-> Unit, error |-> NoError]
NoReturn == [kind |-> "none", value |-> Unit]

EngineIdle ==
    /\ pc = [c \in Callers |-> "idle"]
    /\ call = [c \in Callers |-> NoCall]
    /\ task = [c \in Callers |-> NoTask]
    /\ ret = [c \in Callers |-> NoReturn]
    /\ expect = [c \in Callers |-> Unit]
    /\ lazyAsync = FALSE

NoOutcome ==
    [factory |-> "none", key |-> "none", engine |-> 0, client |-> FALSE,
     error |-> NoError,
     store |-> 0, blocked |-> FALSE, newEngines |-> 0, newClients |-> 0]

NoFactoryCall ==
    /\ engines = {}
    /\ stores = <<>>
    /\ outcome = NoOutcome

-----------------------------------------------------------------------------
(* The async core on a table that other writers may have filled *)

NoOp == [op |-> "none", arg |-> <<>>, result |-> Unit, error |-> NoError]

\* a row as the run may find it: absent, or holding one cell in either column
InitialRows == UNION {[cs -> {<<"v1">>}] : cs \in SUBSET Columns}

TableOver(keys, rowOf) ==
    [k \in {Encode(s) : s \in {s \in keys : rowOf[s] # <<>>}} |->
        rowOf[CHOOSE s \in keys : Encode(s) = k]]

Init ==
    /\ \E rowOf \in [Keys -> InitialRows] :
        /\ table = TableOver(Keys, rowOf)
        /\ written = [k \in Keys |->
                        IF ValueColumn \in DOMAIN rowOf[k] THEN Unknown ELSE Never]
    /\ last = NoOp
    /\ calls = <<>>
    /\ EngineIdle
    /\ NoFactoryCall

Next ==
    \/ \E keys \in KeyLists : AmGet(keys)
    \/ \E kv_pairs \in PairLists : AmSet(kv_pairs)
    \/ \E keys \in KeyLists : AmDelete(keys)

Spec == Init /\ [][Next]_vars

-----------------------------------------------------------------------------
(* Key enumeration over a table of many keys *)

InitKeys ==
    /\ \E stored \in SUBSET ScanKeys :
        table = TableOver(stored, [s \in stored |-> [c \in {ValueColumn} |-> <<"v1">>]])
    /\ written = [k \in Keys |-> Unknown]
    /\ last = NoOp
    /\ calls = <<>>
    /\ EngineIdle
    /\ NoFactoryCall

NextKeys == \E prefix \in Prefixes : AyieldKeys(prefix)

SpecKeys == InitKeys /\ [][NextKeys]_vars

-----------------------------------------------------------------------------
(* Properties of the async core *)

\* C1: a get that follows a set of pairwise distinct keys, with no later write
\* or delete of those keys, returns the value written for each queried key, at
\* the position of that key in the query, whatever the order of the query.
C1_SetThenGet ==
    last.op = "get" =>
        /\ Len(last.result) = Len(last.arg)
        /\ \A i \in 1..Len(last.arg) :
            written[last.arg[i]] \in Values => last.result[i] = written[last.arg[i]]

\* both keys set to different values, then queried in the other key order
C1_Witness ==
    /\ last.op = "get"
    /\ last.arg = << <<233>>, <<97>> >>
    /\ written[<<233>>] = "v1" /\ written[<<97>>] = "v2"
    /\ last.result = <<"v1", "v2">>

\* C2: get returns one result per input key, in input order, whatever order
\* the store returned the rows in; a key that occurs twice gets the same
\* result at both places.
C2_OrderPreserved ==
    last.op = "get" =>
        /\ Len(last.result) = Len(last.arg)
        /\ \A i \in 1..Len(last.arg) : last.result[i] = SingleGet(table, last.arg[i])
        /\ \A i, j \in 1..Len(last.arg) :
            last.arg[i] = last.arg[j] => last.result[i] = last.result[j]

\* the same key twice in one query, the row present
C2_Witness ==
    /\ last.op = "get"
    /\ Len(last.arg) = 2
    /\ last.arg[1] = last.arg[2]
    /\ last.result[1] \in Values
    /\ last.result[2] = last.result[1]

\* C3: the result for a key is the value of the newest cell of the configured
\* column when the row has one, and None when the row is absent or has no cell
\* in that column; a key never written yields None; no error is raised.
C3_ValueOrNone ==
    last.op = "get" =>
        /\ last.error = NoError
        /\ \A i \in 1..Len(last.arg) :
            LET k == Encode(last.arg[i]) IN
            /\ (k \in DOMAIN table /\ ValueColumn \in DOMAIN table[k])
                  => last.result[i] = table[k][ValueColumn][1]
            /\ (k \notin DOMAIN table \/ ValueColumn \notin DOMAIN table[k])
                  => last.result[i] = None
            /\ written[last.arg[i]] = Never => last.result[i] = None

\* one query meeting a row with two versions and a row that holds only
\* another column
C3_Witness ==
    /\ last.op = "get"
    /\ Len(last.arg) = 2
    /\ LET k1 == Encode(last.arg[1])
           k2 == Encode(last.arg[2])
       IN  /\ k1 \in DOMAIN table /\ ValueColumn \in DOMAIN table[k1]
           /\ table[k1][ValueColumn] = <<"v2", "v1">>
           /\ last.result[1] = "v2"
           /\ k2 \in DOMAIN table /\ DOMAIN table[k2] = {OtherColumn}
           /\ last.result[2] = None

\* C4: after a delete of a key and before any later set of it, get returns
\* None for that key, whether or not the key had been written; the delete
\* itself raises nothing.
C4_DeleteThenGet ==
    /\ last.op = "get" =>
        \A i \in 1..Len(last.arg) :
            written[last.arg[i]] = Deleted => last.result[i] = None
    /\ last.op = "delete" => last.error = NoError

\* a get of two deleted keys
C4_Witness ==
    /\ last.op = "get"
    /\ last.arg = << <<97>>, <<233>> >>
    /\ written[<<97>>] = Deleted /\ written[<<233>>] = Deleted
    /\ last.result = <<None, None>>

\* C8: an operation on an empty input issues no call to the remote store
\* client (get then returns the empty list); on a non-empty input it issues
\* exactly one batched call: one read of all keys, or one write carrying one
\* mutation per input element.
C8_OneBatchedCall ==
    /\ last.op = "get" =>
        IF last.arg = <<>>
        THEN calls = <<>> /\ last.result = <<>>
        ELSE /\ Len(calls) = 1
             /\ calls[1] = [method |-> "read_rows", size |-> Len(last.arg)]
    /\ last.op \in {"set", "delete"} =>
        IF last.arg = 0
        THEN calls = <<>>
        ELSE /\ Len(calls) = 1
             /\ calls[1] = [method |-> "mutate_rows", size |-> last.arg]

\* a set of two pairs went out as one write of two mutations
C8_Witness ==
    /\ last.op = "set"
    /\ last.arg = 2
    /\ calls = <<[method |-> "mutate_rows", size |-> 2]>>

\* C18: when the latest write of a key was a set of value v, made over an
\* earlier value of that key with no delete in between, a get returns v for the
\* key: the newest version, never the one it replaced.
C18_LastWriteWins ==
    last.op = "get" =>
        \A i \in 1..Len(last.arg) :
            LET k == Encode(last.arg[i])
                cells == IF k \in DOMAIN table THEN CellsOf(table[k], ValueColumn) ELSE <<>>
            IN  (written[last.arg[i]] \in Values /\ Len(cells) >= 2) =>
                    /\ cells[1] = written[last.arg[i]]
                    /\ last.result[i] = written[last.arg[i]]
                    /\ cells[2] # cells[1] => last.result[i] # cells[2]

\* "a" was set to v1, then to v2, and the get returned v2
C18_Witness ==
    /\ last.op = "get"
    /\ last.arg = << <<97>> >>
    /\ written[<<97>>] = "v2"
    /\ table[<<97>>][ValueColumn] = <<"v2", "v1">>
    /\ last.result = <<"v2">>

-----------------------------------------------------------------------------
(* Writes and deletes on a table that also holds a row no operation names *)

\* the rows the table may hold: those of "a" and "é", and that of "b"
RowTexts == Keys \cup {<<98>>}

\* the pairs set: none, one pair, two rows at once, one row twice
SetArgs ==
    {<<>>,
     << <<<<97>>, "v2">> >>,
     << <<<<233>>, "v2">>, <<<<97>>, "v1">> >>,
     << <<<<97>>, "v1">>, <<<<97>>, "v2">> >>}

\* the keys deleted: none, one key, two rows at once, one row twice
DeleteArgs == {<<>>, << <<97>> >>, << <<233>>, <<97>> >>, << <<97>>, <<97>> >>}

InitFrame ==
    /\ \E rowOf \in [RowTexts -> InitialRows] :
        /\ table = TableOver(RowTexts, rowOf)
        /\ written = [k \in Keys |->
                        IF ValueColumn \in DOMAIN rowOf[k] THEN Unknown ELSE Never]
    /\ last = NoOp
    /\ calls = <<>>
    /\ EngineIdle
    /\ NoFactoryCall

NextFrame ==
    \/ \E kv_pairs \in SetArgs : AmSet(kv_pairs)
    \/ \E keys \in DeleteArgs : AmDelete(keys)

SpecFrame == InitFrame /\ [][NextFrame]_vars

\* the row keys an operation names
RowKeysOf(keys) == {Encode(keys[i]) : i \in 1..Len(keys)}

\* the columns of row k of table t other than the configured one
OtherCells(t, k) ==
    IF k \in DOMAIN t
    THEN [c \in DOMAIN t[k] \ {ValueColumn} |-> t[k][c]]
    ELSE <<>>

SetFrame(kv_pairs) ==
    LET named == RowKeysOf([i \in 1..Len(kv_pairs) |-> kv_pairs[i][1]])
    IN  /\ DOMAIN table' = DOMAIN table \cup named
        /\ \A k \in DOMAIN table \ named : table'[k] = table[k]
        /\ \A k \in named : OtherCells(table', k) = OtherCells(table, k)

\* C13: a set changes only the configured column of the rows its pairs name:
\* every other column of those rows keeps its cells, no row is removed, and
\* every row that no pair names is left as it was.
C13_SetFrame ==
    [][\A kv_pairs \in SetArgs : AmSet(kv_pairs) => SetFrame(kv_pairs)]_vars

\* one pair was set on a row that also holds another column, next to a row
\* that holds only the other column: both other columns are as they were
C13_Witness ==
    /\ last.op = "set"
    /\ last.arg = 1
    /\ <<97>> \in DOMAIN table /\ Encode(<<233>>) \in DOMAIN table
    /\ DOMAIN table[<<97>>] = Columns
    /\ table[<<97>>][ValueColumn] = <<"v2", "v1">>
    /\ table[<<97>>][OtherColumn] = <<"v1">>
    /\ DOMAIN table[Encode(<<233>>)] = {OtherColumn}
    /\ table[Encode(<<233>>)][OtherColumn] = <<"v1">>

DeleteFrame(keys) ==
    LET named == RowKeysOf(keys)
    IN  /\ DOMAIN table' = DOMAIN table \ named
        /\ \A k \in DOMAIN table' : table'[k] = table[k]

\* C14: a delete removes the whole row of every key listed, whatever columns
\* the row holds, and leaves every row whose key is not listed as it was.
C14_DeleteFrame ==
    [][\A keys \in DeleteArgs : AmDelete(keys) => DeleteFrame(keys)]_vars

\* "a" was deleted and its row is gone; the row of "é", not listed, still
\* holds both its columns
C14_Witness ==
    /\ last.op = "delete"
    /\ last.arg = 1
    /\ written[<<97>>] = Deleted
    /\ <<97>> \notin DOMAIN table
    /\ Encode(<<233>>) \in DOMAIN table
    /\ DOMAIN table[Encode(<<233>>)] = Columns
    /\ table[Encode(<<233>>)][ValueColumn] = <<"v2", "v1">>

-----------------------------------------------------------------------------
(* Properties of key enumeration *)

\* the stored keys as text
StoredKeys == {s \in ScanKeys : Encode(s) \in DOMAIN table}

StartsWith(s, prefix) ==
    Len(s) >= Len(prefix) /\ SubSeq(s, 1, Len(prefix)) = prefix

\* C5 as claimed: for every non-empty prefix whose last character is below
\* the maximum code point, enumeration scans [prefix, successor(prefix)) and
\* yields exactly the stored keys that start with the prefix.
C5_PrefixScanClaim ==
    (/\ last.op = "keys"
     /\ last.arg # NoPrefix /\ last.arg # <<>>
     /\ last.arg[Len(last.arg)] < MaxCodePoint)
    => /\ last.error = NoError
       /\ Range(last.result) = {s \in StoredKeys : StartsWith(s, last.arg)}
       /\ Len(calls) = 1
       /\ calls[1].range = <<Encode(last.arg), Encode(EndKey(last.arg))>>

C19_MaxCodePointFails ==
    (/\ last.op = "keys"
     /\ last.arg # NoPrefix /\ last.arg # <<>>
     /\ last.arg[Len(last.arg)] = MaxCodePoint)
    => /\ last.error = ValueError
       /\ calls = <<>>
       /\ last.result = <<>>

\* the prefix "a\U0010ffff" on a table that holds "ab" and "\U0010ffff"
C19_Witness ==
    /\ last.op = "keys"
    /\ last.arg = <<97, 1114111>>
    /\ last.error = ValueError
    /\ calls = <<>>
    /\ {<<97, 98>>, <<1114111>>} \subseteq StoredKeys

-----------------------------------------------------------------------------
(* The execution engine: one background loop, operations submitted to it *)

Submitted == [state |-> "queued", result |-> Unit, error |-> NoError]
NeverStarted == [state |-> "created", result |-> Unit, error |-> NoError]
Awaitable == [kind |-> "awaitable", value |-> Unit]

\* run-as-sync: submit the operation and block the calling thread on its future
RunAsSync(c) ==
    /\ task' = [task EXCEPT ![c] = Submitted]
    /\ pc' = [pc EXCEPT ![c] = "blocked"]
    /\ UNCHANGED ret

\* run-as-async, awaited: submit the operation and suspend the calling task
RunAsAsyncAwaited(c) ==
    /\ task' = [task EXCEPT ![c] = Submitted]
    /\ pc' = [pc EXCEPT ![c] = "suspended"]
    /\ UNCHANGED ret

\* run-as-async, its awaitable handed on without being awaited: the caller
\* goes on at once, holding the awaitable; the operation is on the loop only
\* if the engine submits when called rather than when awaited
RunAsAsyncNotAwaited(c) ==
    /\ task' = [task EXCEPT ![c] = IF lazyAsync THEN NeverStarted ELSE Submitted]
    /\ pc' = [pc EXCEPT ![c] = "returned"]
    /\ ret' = [ret EXCEPT ![c] = Awaitable]

\* the future of a finished operation hands its result, or raises its error
Outcome(t) ==
    IF t.error # NoError
    THEN [kind |-> "raised", value |-> t.error]
    ELSE [kind |-> "value", value |-> t.result]

-----------------------------------------------------------------------------
(* The facade: BigtableByteStore.mget / amget / mset / amset *)

IsGet(c) == call[c].entry \in {"mget", "amget"}

FacadeFrame == UNCHANGED <<coreVars, expect, lazyAsync, factoryVars>>

\* (a variant of mget that does not wait for the engine's result)
MgetNotAwaited(c, keys) ==
    /\ pc[c] = "idle"
    /\ call' = [call EXCEPT ![c] = [entry |-> "mget", arg |-> keys]]
    /\ RunAsAsyncNotAwaited(c)
    /\ FacadeFrame

\* mget: return self._engine._run_as_sync(self.__async_store.amget(keys))
Mget(c, keys) ==
    /\ pc[c] = "idle"
    /\ call' = [call EXCEPT ![c] = [entry |-> "mget", arg |-> keys]]
    /\ RunAsSync(c)
    /\ FacadeFrame

\* amget: return await self._engine._run_as_async(self.__async_store.amget(keys))
Amget(c, keys) ==
    /\ pc[c] = "idle"
    /\ call' = [call EXCEPT ![c] = [entry |-> "amget", arg |-> keys]]
    /\ RunAsAsyncAwaited(c)
    /\ FacadeFrame

\* mset: return self._engine._run_as_sync(self.__async_store.amset(kv_pairs))
Mset(c, kv_pairs) ==
    /\ pc[c] = "idle"
    /\ call' = [call EXCEPT ![c] = [entry |-> "mset", arg |-> kv_pairs]]
    /\ RunAsSync(c)
    /\ FacadeFrame

\* amset: return self._engine._run_as_async(self.__async_store.amset(kv_pairs))
\* (no await: the awaitable itself is what the caller's await hands back)
Amset(c, kv_pairs) ==
    /\ pc[c] = "idle"
    /\ call' = [call EXCEPT ![c] = [entry |-> "amset", arg |-> kv_pairs]]
    /\ RunAsAsyncNotAwaited(c)
    /\ FacadeFrame

\* the entry points the class body defines, and those of delete and key
\* enumeration, which it does not define
FacadeEntryPoints == {"mget", "amget", "mset", "amset"}
OtherEntryPoints == {"mdelete", "amdelete", "yield_keys", "ayield_keys"}

AttributeError == "AttributeError"

\* a call of an entry point the facade does not define: nothing is handed to
\* the engine and the async core is not reached; what the caller gets is left
\* to the base class: an error, or None from a body that does nothing
NotDefined(c, entry, arg) ==
    /\ pc[c] = "idle"
    /\ entry \notin FacadeEntryPoints
    /\ call' = [call EXCEPT ![c] = [entry |-> entry, arg |-> arg]]
    /\ pc' = [pc EXCEPT ![c] = "returned"]
    /\ \E r \in {[kind |-> "raised", value |-> AttributeError],
                 [kind |-> "value", value |-> Unit]} :
            ret' = [ret EXCEPT ![c] = r]
    /\ UNCHANGED task
    /\ FacadeFrame

-----------------------------------------------------------------------------
(* The async core's coroutines on the background loop, step by step *)

Done(result) == [state |-> "done", result |-> result, error |-> NoError]
Failed == [state |-> "done", result |-> Unit, error |-> StoreError]
AwaitingClient == [state |-> "awaiting", result |-> Unit, error |-> NoError]

\* the loop runs a submitted coroutine up to its first await: amget returns
\* [] for no keys, amset returns for no mutations, else the client is called
CoroStart(c) ==
    /\ task[c].state = "queued"
    /\ IF IsGet(c)
       THEN IF call[c].arg = <<>>
            THEN /\ task' = [task EXCEPT ![c] = Done(<<>>)]
                 /\ expect' = [expect EXCEPT ![c] = <<>>]
            ELSE /\ task' = [task EXCEPT ![c] = AwaitingClient]
                 /\ UNCHANGED expect
       ELSE /\ task' = [task EXCEPT ![c] =
                          IF AmsetMutations(call[c].arg) = <<>>
                          THEN Done(Unit) ELSE AwaitingClient]
            /\ UNCHANGED expect
    /\ UNCHANGED <<coreVars, pc, call, ret, lazyAsync, factoryVars>>

\* the client answers: the rows of a read (the coroutine then builds its
\* results), or the batch of a write applied
ClientServes(c) ==
    /\ task[c].state = "awaiting"
    /\ IF IsGet(c)
       THEN LET row_keys == AmgetRowKeys(call[c].arg)
            IN  /\ \E rows \in RowOrders(ReadRows(table, row_keys)) :
                     task' = [task EXCEPT ![c] = Done(AmgetResults(row_keys, rows))]
                /\ expect' = [expect EXCEPT ![c] =
                                [i \in 1..Len(call[c].arg) |->
                                    SingleGet(table, call[c].arg[i])]]
                /\ UNCHANGED table
       ELSE LET mutations == AmsetMutations(call[c].arg)
            IN  /\ table' = ApplyBatch(table, mutations, AllApplied(Len(mutations)))
                /\ task' = [task EXCEPT ![c] = Done(Unit)]
                /\ UNCHANGED expect
    /\ UNCHANGED <<last, calls, written, pc, call, ret, lazyAsync, factoryVars>>

\* the client fails: the coroutine ends with the client's error; a failed
\* write may have applied part of its batch
ClientFails(c) ==
    /\ task[c].state = "awaiting"
    /\ task' = [task EXCEPT ![c] = Failed]
    /\ IF IsGet(c)
       THEN UNCHANGED table
       ELSE LET mutations == AmsetMutations(call[c].arg)
            IN  \E applied \in PartlyApplied(Len(mutations)) :
                    table' = ApplyBatch(table, mutations, applied)
    /\ UNCHANGED <<last, calls, written, pc, call, ret, expect, lazyAsync, factoryVars>>

\* a blocked thread, or a suspended task, gets the outcome of its operation
Return(c) ==
    /\ pc[c] \in {"blocked", "suspended"}
    /\ task[c].state = "done"
    /\ pc' = [pc EXCEPT ![c] = "returned"]
    /\ ret' = [ret EXCEPT ![c] = Outcome(task[c])]
    /\ UNCHANGED <<coreVars, call, task, expect, lazyAsync, factoryVars>>

-----------------------------------------------------------------------------
(* Callers sharing one engine *)

\* the calls made: "é" then "a" queried, nothing queried, two pairs set, ...
MgetArgs == {<< <<233>>, <<97>> >>, <<>>}
MsetArgs == {<< <<<<233>>, "v2">>, <<<<97>>, "v1">> >>, <<>>}
AmgetArgs == {<< <<97>> >>}
AmsetArgs == {<< <<<<97>>, "v2">> >>}
MdeleteArgs == {<< <<97>> >>}

InitEngine ==
    /\ table = <<>>
    /\ written = [k \in Keys |-> Never]
    /\ last = NoOp
    /\ calls = <<>>
    /\ pc = [c \in Callers |-> "idle"]
    /\ call = [c \in Callers |-> NoCall]
    /\ task = [c \in Callers |-> NoTask]
    /\ ret = [c \in Callers |-> NoReturn]
    /\ expect = [c \in Callers |-> Unit]
    /\ lazyAsync \in BOOLEAN
    /\ NoFactoryCall

NextEngine ==
    \/ \E c \in Callers, keys \in MgetArgs : Mget(c, keys)
    \/ \E c \in Callers, keys \in AmgetArgs : Amget(c, keys)
    \/ \E c \in Callers, kv_pairs \in MsetArgs : Mset(c, kv_pairs)
    \/ \E c \in Callers, kv_pairs \in AmsetArgs : Amset(c, kv_pairs)
    \/ \E c \in Callers, entry \in OtherEntryPoints, keys \in MdeleteArgs :
            NotDefined(c, entry, keys)
    \/ \E c \in Callers : CoroStart(c)
    \/ \E c \in Callers : ClientServes(c)
    \/ \E c \in Callers : ClientFails(c)
    \/ \E c \in Callers : Return(c)

\* the loop runs every submitted coroutine, the client answers every call
\* (with rows or with an error), and a finished future wakes its waiter
EngineFairness ==
    \A c \in Callers :
        /\ WF_vars(CoroStart(c))
        /\ WF_vars(ClientServes(c) \/ ClientFails(c))
        /\ WF_vars(Return(c))

SpecEngine == InitEngine /\ [][NextEngine]_vars /\ EngineFairness

-----------------------------------------------------------------------------
(* Properties of the facade on a shared engine *)

\* a blocking call that has returned handed back the outcome of the caller's
\* own operation on the caller's own arguments
OwnResult(c) ==
    (pc[c] = "returned" /\ call[c].entry \in {"mget", "mset"}) =>
        /\ ret[c].kind \in {"value", "raised"}
        /\ ret[c] = Outcome(task[c])
        /\ ret[c].kind = "raised" => ret[c].value = StoreError
        /\ ret[c].kind = "value" =>
            IF call[c].entry = "mget"
            THEN /\ Len(ret[c].value) = Len(call[c].arg)
                 /\ ret[c].value = expect[c]
            ELSE ret[c].value = Unit

\* C7: with one engine shared by several threads that call mget / mset
\* concurrently, under fair scheduling of the background loop every blocked
\* call returns, and each returns the result of its own operation on its own
\* arguments.
C7_EachCallReturnsItsOwn ==
    /\ [](\A c \in Callers : OwnResult(c))
    /\ \A c \in Callers : (pc[c] = "blocked") ~> (pc[c] = "returned")

\* an mget and an mset ran at once; the mget returned what the mset wrote
C7_Witness ==
    /\ pc[1] = "returned" /\ call[1].entry = "mget"
    /\ pc[2] = "returned" /\ call[2].entry = "mset"
    /\ ret[1] = [kind |-> "value", value |-> <<"v2", "v1">>]
    /\ ret[2] = [kind |-> "value", value |-> Unit]

\* C10 as claimed: when await amset(pairs) has returned to its caller, the
\* operation has run to completion on the background loop (the write applied,
\* or its failure raised to the caller).
C10_AmsetCompleteOnReturn ==
    \A c \in Callers :
        (pc[c] = "returned" /\ call[c].entry = "amset") =>
            /\ task[c].state = "done"
            /\ ret[c] = Outcome(task[c])

\* C11 as claimed: every call of the facade (get, set, delete, key enumeration,
\* blocking or suspending) is dispatched through the engine to the async core,
\* and what the caller gets is the outcome of the async-core operation, run to
\* its end on the store.
C11_FacadeAsCore ==
    \A c \in Callers :
        pc[c] = "returned" =>
            /\ task[c].state = "done"
            /\ ret[c] = Outcome(task[c])

\* C12 as claimed: when the remote store client fails during an operation,
\* the caller of that operation gets that same failure raised, never a normal
\* result; and an operation that has ended, failed or not, is not put to the
\* client again.
C12_FailureReachesCaller ==
    /\ [](\A c \in Callers :
            (pc[c] = "returned" /\ task[c].error = StoreError) =>
                ret[c] = [kind |-> "raised", value |-> StoreError])
    /\ [][\A c \in Callers : task[c].state = "done" => task'[c] = task[c]]_vars

-----------------------------------------------------------------------------
(* Construction: BigtableByteStore.__init__, create_sync, create *)

NoEngine == 0                   \* engine=None
UsageError == "Exception"       \* what __init__ raises without the create key

NewEngine == Cardinality(engines) + 1

\* the class's create key, and first arguments a direct call may pass: None,
\* a fresh object(), and an object whose comparison answers "equal" to
\* anything (unittest.mock.ANY)
CreateKey == "create_key"
ForeignKeys == {"None", "object", "ANY"}

\* key != BigtableByteStore.__create_key: the comparison is the key's own;
\* an ordinary object differs from every object but itself
KeyDiffers(key) == IF key = "ANY" THEN FALSE ELSE key # CreateKey

\* BigtableEngine.sync_initialize, called by the application itself
SyncInitialize ==
    /\ Cardinality(engines) < MaxEngines
    /\ engines' = engines \cup {NewEngine}
    /\ outcome' = [factory |-> "sync_initialize", key |-> "none", engine |-> NoEngine,
                   client |-> TRUE, error |-> NoError, store |-> 0,
                   blocked |-> TRUE, newEngines |-> 1, newClients |-> 0]
    /\ UNCHANGED <<stores, coreVars, engineVars>>

\* (a variant in which every store gets an engine of its own)
ConstructOwnEngine(factory, engine, client, blocks) ==
    /\ Cardinality(engines) < MaxEngines
    /\ Len(stores) < MaxStores
    /\ engines' = engines \cup {NewEngine}
    /\ stores' = Append(stores, [engine |-> NewEngine, via |-> factory])
    /\ outcome' = [factory |-> factory, key |-> CreateKey, engine |-> engine,
                   client |-> client, error |-> NoError, store |-> Len(stores) + 1,
                   blocked |-> blocks, newEngines |-> 1,
                   newClients |-> IF client THEN 0 ELSE 1]

\* what both factories do once the arguments are accepted: take the engine
\* given or make one (with a new client unless one was given), bind the
\* async core to it, and construct the facade with the create key
Construct(factory, engine, client, blocks) ==
    LET used == IF engine = NoEngine THEN NewEngine ELSE engine
    IN  /\ engine = NoEngine => Cardinality(engines) < MaxEngines
        /\ Len(stores) < MaxStores
        /\ engines' = engines \cup {used}
        /\ stores' = Append(stores, [engine |-> used, via |-> factory])
        /\ outcome' = [factory |-> factory, key |-> CreateKey, engine |-> engine,
                       client |-> client, error |-> NoError,
                       store |-> Len(stores) + 1, blocked |-> blocks,
                       newEngines |-> IF engine = NoEngine THEN 1 ELSE 0,
                       newClients |-> IF engine = NoEngine /\ ~client THEN 1 ELSE 0]

\* create_sync: rejects engine together with async_data_client; otherwise
\* sync_initialize when no engine was given, then the engine's run-as-sync:
\* the calling thread blocks
CreateSync(engine, client) ==
    /\ IF engine # NoEngine /\ client
       THEN /\ outcome' = [factory |-> "create_sync", key |-> "none",
                           engine |-> engine, client |-> client,
                           error |-> ValueError, store |-> 0,
                           blocked |-> FALSE, newEngines |-> 0, newClients |-> 0]
            /\ UNCHANGED <<engines, stores>>
       ELSE Construct("create_sync", engine, client, TRUE)
    /\ UNCHANGED <<coreVars, engineVars>>

\* create: no check of engine against async_data_client (a given engine is
\* used, the client ignored); sync_initialize when no engine was given, which
\* blocks the caller's thread; then awaits the async core's create
Create(engine, client) ==
    /\ Construct("create", engine, client, engine = NoEngine)
    /\ UNCHANGED <<coreVars, engineVars>>

\* BigtableByteStore(key, engine, async_store), called directly
DirectInit(key, engine) ==
    /\ IF KeyDiffers(key)
       THEN /\ outcome' = [factory |-> "__init__", key |-> key, engine |-> engine,
                           client |-> FALSE, error |-> UsageError, store |-> 0,
                           blocked |-> FALSE, newEngines |-> 0, newClients |-> 0]
            /\ UNCHANGED stores
       ELSE /\ Len(stores) < MaxStores
            /\ stores' = Append(stores, [engine |-> engine, via |-> "__init__"])
            /\ outcome' = [factory |-> "__init__", key |-> key, engine |-> engine,
                           client |-> FALSE, error |-> NoError,
                           store |-> Len(stores) + 1,
                           blocked |-> FALSE, newEngines |-> 0, newClients |-> 0]
    /\ UNCHANGED <<engines, coreVars, engineVars>>

InitFactory ==
    /\ table = <<>>
    /\ written = [k \in Keys |-> Never]
    /\ last = NoOp
    /\ calls = <<>>
    /\ EngineIdle
    /\ NoFactoryCall

NextFactory ==
    \/ SyncInitialize
    \/ \E engine \in engines \cup {NoEngine}, client \in BOOLEAN : CreateSync(engine, client)
    \/ \E engine \in engines \cup {NoEngine}, client \in BOOLEAN : Create(engine, client)
    \/ \E key \in ForeignKeys, engine \in engines \cup {NoEngine} : DirectInit(key, engine)

SpecFactory == InitFactory /\ [][NextFactory]_vars

-----------------------------------------------------------------------------
(* Properties of construction *)

\* C9 as claimed: a factory given both an engine and a client fails with the
\* configuration error and returns no store, create_sync and create alike.
C9_BothRejected ==
    (/\ outcome.factory \in {"create_sync", "create"}
     /\ outcome.engine # NoEngine
     /\ outcome.client)
    => /\ outcome.error = ValueError
       /\ outcome.store = 0

\* a step of either factory, called with the engine and client given
FactoryStep(engine, client) == CreateSync(engine, client) \/ Create(engine, client)

\* C15: a factory call that is given an engine makes no engine, no loop
\* thread and no client, and the store it returns references the engine given;
\* a call given none makes exactly one engine, the one its store references;
\* the stores made before keep the engine they had.
C15_EngineShared ==
    [][\A engine \in engines \cup {NoEngine}, client \in BOOLEAN :
        (FactoryStep(engine, client) /\ outcome'.store # 0) =>
            /\ SubSeq(stores', 1, Len(stores)) = stores
            /\ Len(stores') = Len(stores) + 1
            /\ outcome'.store = Len(stores')
            /\ IF engine # NoEngine
               THEN /\ engines' = engines
                    /\ outcome'.newClients = 0
                    /\ stores'[Len(stores')].engine = engine
               ELSE /\ Cardinality(engines' \ engines) = 1
                    /\ engines \subseteq engines'
                    /\ stores'[Len(stores')].engine \in engines' \ engines]_vars

\* two stores, one from each factory, on the one engine the application made
C15_Witness ==
    /\ Len(stores) = 2
    /\ stores[1] = [engine |-> 1, via |-> "create_sync"]
    /\ stores[2] = [engine |-> 1, via |-> "create"]
    /\ engines = {1}
    /\ outcome.factory = "create" /\ outcome.engine = 1

\* C16 as claimed: a direct call of the constructor whose first argument is
\* not the create key raises and makes no store; every store there is was
\* made by create_sync or by create.
C16_FactoryOnly ==
    /\ (outcome.factory = "__init__" /\ outcome.key # CreateKey) =>
        /\ outcome.error = UsageError
        /\ outcome.store = 0
    /\ \A i \in 1..Len(stores) : stores[i].via \in {"create_sync", "create"}

\* C17 as claimed: create, called without an engine, gets its engine without
\* blocking the caller's thread at any step (blocked records that
\* sync_initialize ran on the calling thread); only create_sync blocks.
C17_CreateNeverBlocks ==
    outcome.factory = "create" => ~outcome.blocked

====
